---- MODULE Spec2Model ----
(***************************************************************************)
(* The bulletin board of decidim-electionguard                             *)
(* (src/decidim/electionguard/bulletin_board.py) as a state machine.       *)
(*                                                                         *)
(* The state is the BulletinBoardContext, the active ElectionStep with its *)
(* phase-local set, and a record of what the last call returned.  One      *)
(* action stands for one call of the wrapper handled by one step class,    *)
(* one for a skipped message, one each for add_ballot and get_tally_cast.  *)
(* A phase-local set is empty while no step instance holds it: the wrapper  *)
(* drops the instance when it replaces the active step.  History variables *)
(* (emitted, entered, keys_at_quorum, counted, ingested, script) record    *)
(* what the properties talk about; no action reads them, except the guard  *)
(* that caps the number of end_tally emissions explored.                   *)
(* Spec runs the calls one at a time, FairSpec adds callers that keep     *)
(* submitting the messages, ConcurrentSpec lets two threads be inside      *)
(* add_ballot at the same time.                                            *)
(***************************************************************************)
EXTENDS Integers, FiniteSets, Sequences, TLC

\* ------------------------------------------------------------------ bounds
\* Largest number of guardians an election is created with.
MaxGuardians == 2
\* Number of distinct ballots offered to vote.cast and add_ballot.
MaxBallots == 2
\* Number of end_tally emissions explored (the code itself has no limit).
MaxEndTally == 2
\* Small modulus standing for the group modulus of the ElGamal library.
ModP == 7

GuardianIds == 1 .. MaxGuardians
KeyValues == {2, 3}
\* The share bundles a guardian may submit: (public_key, share of the selection)
ShareBundles == {<<2, 3>>, <<3, 2>>}
BallotIds == 1 .. MaxBallots
\* What add_ballot is given: a ballot that decodes, or one that does not.
Ballots == {<<b, TRUE>> : b \in BallotIds} \cup {<<0, FALSE>>}
\* The threads that may call add_ballot at the same time.
Callers == {1, 2}

\* -------------------------------------------------------------------- state
VARIABLES
    step,                   \* Wrapper.step: the class of the active step
    number_of_guardians,    \* Context.number_of_guardians (0: no election built)
    public_keys,            \* BulletinBoardContext.public_keys
    shares,                 \* BulletinBoardContext.shares
    shares_order,           \* the guardians of shares in the order the dict iterates:
                            \* the order in which their first share was recorded
    tally,                  \* BulletinBoardContext.tally (exists = FALSE: attribute not set)
    election_context,       \* Context.election_context with the joint key
    partial_keys_received,  \* ProcessTrusteeElectionPartialKeys.partial_keys_received
    verifications_received, \* ProcessTrusteeVerification.verifications_received
    last,                   \* what the last call did and returned
    returned,               \* the payload of the message the last call returned
    emitted,                \* history: number of outbound messages per type
    entered,                \* history: how often each step became the active step
    keys_at_quorum,         \* history: public_keys when ProcessTrusteeElectionKeys was left
    counted,                \* history: the guardians the two phase-local sets of the key
                            \* ceremony counted, kept until the vote starts
    ingested,               \* history: the ballots add_ballot took without an error
    script,                 \* history: every call so far was a message handled, without
                            \* error, from a guardian not yet recorded in its phase
    pending                 \* the add_ballot calls that are inside tally_ballot, each with
                            \* its ballot and the cast tally it read

ctx == <<number_of_guardians, public_keys, shares, shares_order, tally, election_context>>
acc == <<partial_keys_received, verifications_received>>
vars == <<step, number_of_guardians, public_keys, shares, shares_order, tally,
          election_context,
          partial_keys_received, verifications_received, last, returned,
          emitted, entered, keys_at_quorum, counted, ingested, script, pending>>

\* -------------------------------------------------------------------- steps
Steps == <<"ProcessCreateElection", "ProcessStartKeyCeremony",
           "ProcessTrusteeElectionKeys", "ProcessTrusteeElectionPartialKeys",
           "ProcessTrusteeVerification", "ProcessStartVote", "ProcessCastVote",
           "ProcessStartTally", "ProcessTrusteeShare">>

StepSet == {Steps[i] : i \in 1 .. Len(Steps)}

StepIndex(s) == CHOOSE i \in 1 .. Len(Steps) : Steps[i] = s

MessageTypes == {"create_election", "start_key_ceremony",
                 "key_ceremony.trustee_election_keys",
                 "key_ceremony.trustee_partial_election_keys",
                 "key_ceremony.trustee_verification", "start_vote", "vote.cast",
                 "end_vote", "start_tally", "tally.trustee_share"}

\* The message_type attribute each step class declares (ProcessCastVote declares none).
message_type(s) ==
    CASE s = "ProcessCreateElection" -> "create_election"
      [] s = "ProcessStartKeyCeremony" -> "start_key_ceremony"
      [] s = "ProcessTrusteeElectionKeys" -> "key_ceremony.trustee_election_keys"
      [] s = "ProcessTrusteeElectionPartialKeys" -> "key_ceremony.trustee_partial_election_keys"
      [] s = "ProcessTrusteeVerification" -> "key_ceremony.trustee_verification"
      [] s = "ProcessStartVote" -> "start_vote"
      [] s = "ProcessStartTally" -> "start_tally"
      [] s = "ProcessTrusteeShare" -> "tally.trustee_share"
      [] OTHER -> "none"

\* Mutant of ProcessCastVote_skip_message: `or` written for `and`.
ProcessCastVote_skip_message_or(t) == t # "vote.cast" \/ t # "end_vote"

\* ProcessCastVote.skip_message
ProcessCastVote_skip_message(t) == t # "vote.cast" /\ t # "end_vote"

\* ElectionStep.skip_message, overridden by ProcessCastVote.
skip_message(s, t) ==
    IF s = "ProcessCastVote" THEN ProcessCastVote_skip_message(t)
    ELSE message_type(s) # t

\* ----------------------------------------------------------------- messages
Msg(t, ok, g, k, sh, b, v, n) ==
    [message_type |-> t, ok |-> ok, guardian_id |-> g, key |-> k, share |-> sh,
     ballot |-> b, valid |-> v, trustees |-> n]

ControlMessages ==
    {Msg(t, TRUE, 0, 0, 0, 0, TRUE, 0) :
        t \in {"start_key_ceremony", "start_vote", "end_vote", "start_tally"}}

CreateMessages == {Msg("create_election", TRUE, 0, 0, 0, 0, TRUE, n) : n \in 1 .. MaxGuardians}

\* content decodes to a PublicKeySet (owner_id, election_public_key), or does not decode
KeyMessages ==
    {Msg("key_ceremony.trustee_election_keys", TRUE, g, k, 0, 0, TRUE, 0) :
        g \in GuardianIds, k \in KeyValues}
    \cup {Msg("key_ceremony.trustee_election_keys", FALSE, 0, 0, 0, 0, TRUE, 0)}

PartialKeyMessages ==
    {Msg("key_ceremony.trustee_partial_election_keys", TRUE, g, 0, 0, 0, TRUE, 0) :
        g \in GuardianIds}
    \cup {Msg("key_ceremony.trustee_partial_election_keys", FALSE, 0, 0, 0, 0, TRUE, 0)}

VerificationMessages ==
    {Msg("key_ceremony.trustee_verification", TRUE, g, 0, 0, 0, TRUE, 0) : g \in GuardianIds}
    \cup {Msg("key_ceremony.trustee_verification", FALSE, 0, 0, 0, 0, TRUE, 0)}

\* content decodes to a CiphertextBallot that the validator accepts or rejects
VoteMessages ==
    {Msg("vote.cast", TRUE, 0, 0, 0, b, v, 0) : b \in BallotIds, v \in BOOLEAN}
    \cup {Msg("vote.cast", FALSE, 0, 0, 0, 0, TRUE, 0)}

\* content decodes to a TrusteeShare (guardian_id, public_key, the selection's share)
ShareMessages ==
    {Msg("tally.trustee_share", TRUE, g, sb[1], sb[2], 0, TRUE, 0) :
        g \in GuardianIds, sb \in ShareBundles}
    \cup {Msg("tally.trustee_share", FALSE, 0, 0, 0, 0, TRUE, 0)}

Messages == ControlMessages \cup CreateMessages \cup KeyMessages \cup PartialKeyMessages
            \cup VerificationMessages \cup VoteMessages \cup ShareMessages

\* ------------------------------------------------------------------ helpers
\* What a call returned: whether the wrapper skipped the message, the message_type of the
\* outbound message returned ("None": none) and the exception raised ("None": none).
\* op and t name the call and its message type for the reader; they are not recorded.
Outcome(op, t, skipped, out, error) == [skipped |-> skipped, out |-> out, error |-> error]

\* The payload of a call that returns no message.
NoResults == [cast |-> {}, shares |-> {}, value |-> 0]

RECURSIVE ProductModP(_, _)
ProductModP(f, S) ==
    IF S = {} THEN 1
    ELSE LET x == CHOOSE y \in S : TRUE
         IN (f[x] * ProductModP(f, S \ {x})) % ModP

\* elgamal_combine_public_keys(context.public_keys.values()): the product of the keys
elgamal_combine_public_keys(pk) == ProductModP(pk, DOMAIN pk)

\* dict[key] = value
Put(f, k, v) == [x \in DOMAIN f \cup {k} |-> IF x = k THEN v ELSE f[x]]

\* The order a dict iterates after dict[key] = value: a new key comes last, a key the
\* dict holds keeps its place.
PutOrder(f, order, k) == IF k \in DOMAIN f THEN order ELSE Append(order, k)

Empty == [x \in {} |-> 0]

\* A thread that is not inside tally_ballot.
NotCalling == [busy |-> FALSE, ballot |-> 0, seen |-> {}]

\* The step the wrapper holds once a handler returned next_step: the step classes, as the
\* wrapper, keep the active step when next_step is None.
Bump(s) == [entered EXCEPT ![s] = @ + 1]

Init ==
    /\ step = "ProcessCreateElection"
    /\ number_of_guardians = 0
    /\ public_keys = Empty
    /\ shares = Empty
    /\ shares_order = <<>>
    /\ tally = [exists |-> FALSE, cast |-> {}]
    /\ election_context = [built |-> FALSE, joint_key |-> 0]
    /\ partial_keys_received = {}
    /\ verifications_received = {}
    /\ last = Outcome("init", "none", FALSE, "None", "None")
    /\ returned = NoResults
    /\ emitted = [end_key_ceremony |-> 0, end_tally |-> 0]
    /\ entered = [s \in StepSet |-> IF s = "ProcessCreateElection" THEN 1 ELSE 0]
    /\ keys_at_quorum = Empty
    /\ counted = [partial_keys |-> {}, verifications |-> {}]
    /\ ingested = {}
    /\ script = TRUE
    /\ pending = [c \in Callers |-> NotCalling]

\* ------------------------------------------------- what the handlers compute
\* ProcessCreateElection returns ProcessStartKeyCeremony()
AfterCreateElection == "ProcessStartKeyCeremony"

\* ProcessStartKeyCeremony returns ProcessTrusteeElectionKeys()
AfterStartKeyCeremony == "ProcessTrusteeElectionKeys"

\* Mutant of keys_quorum: `>` written for `==`.
keys_quorum_gt(pk, n) == Cardinality(DOMAIN pk) > n

\* len(context.public_keys) == context.number_of_guardians
keys_quorum(pk, n) == Cardinality(DOMAIN pk) = n

\* Mutant of partial_keys_quorum: `>` written for `==`.
partial_keys_quorum_gt(received, n) == Cardinality(received) > n

\* len(self.partial_keys_received) == context.number_of_guardians
partial_keys_quorum(received, n) == Cardinality(received) = n

\* Mutant of verifications_below_quorum: `<=` written for `<`.
verifications_below_quorum_le(received, n) == Cardinality(received) <= n

\* len(self.verifications_received) < context.number_of_guardians
verifications_below_quorum(received, n) == Cardinality(received) < n

\* Mutant of joint_key_of: only the keys of the guardians that verified are combined.
joint_key_of_verified(pk, verified) ==
    elgamal_combine_public_keys([g \in DOMAIN pk \cap verified |-> pk[g]])

\* joint_key = elgamal_combine_public_keys(context.public_keys.values())
joint_key_of(pk, verified) == elgamal_combine_public_keys(pk)

\* Mutant of AfterVerification: the step after the key ceremony is left out.
AfterVerification_CastVote == "ProcessCastVote"

\* ProcessTrusteeVerification returns ProcessStartVote() at quorum
AfterVerification == "ProcessStartVote"

\* ProcessStartVote returns ProcessCastVote()
AfterStartVote == "ProcessCastVote"

\* Mutant of ballot_rejected: the `not` is left out.
ballot_rejected_inverted(m) == m.valid

\* not ballot_is_valid_for_election(ballot, election_metadata, election_context)
ballot_rejected(m) == ~m.valid

\* Mutant of AfterEndVote: end_vote builds the tally and returns no next step.
AfterEndVote_None == "ProcessCastVote"

\* ProcessCastVote returns ProcessStartTally() on end_vote
AfterEndVote == "ProcessStartTally"

\* context.tally = CiphertextTally('election-results', ...): a tally with no ballot
new_tally == [exists |-> TRUE, cast |-> {}]

\* Mutant of tally_ballot: the ballot is not accumulated.
tally_ballot_dropped(b, t) == t

\* tally_ballot(from_ciphertext_ballot(ballot, CAST), context.tally)
tally_ballot(b, t) == [t EXCEPT !.cast = @ \cup {b}]

\* ProcessStartTally returns ProcessTrusteeShare()
AfterStartTally == "ProcessTrusteeShare"

\* Mutant of shares_below_quorum: `<=` written for `<`.
shares_below_quorum_le(sh, n) == Cardinality(DOMAIN sh) <= n

\* len(context.shares) < context.number_of_guardians
shares_below_quorum(sh, n) == Cardinality(DOMAIN sh) < n

\* Mutant of prepare_shares_for_decryption: the dict of a selection is assigned, not
\* updated, for each guardian, so that only the guardian that comes last is left.
prepare_shares_for_decryption_last(sh, order) ==
    IF order = <<>> THEN <<>>
    ELSE LET g == order[Len(order)]
         IN <<(<<g, sh[g].public_key, sh[g].selection>>)>>

\* _prepare_shares_for_decryption: per selection, guardian_id -> (public_key, selection),
\* filled guardian by guardian in the order context.shares iterates; the election
\* modelled has one contest with one selection.
prepare_shares_for_decryption(sh, order) ==
    [i \in 1 .. Len(order) |->
        <<order[i], sh[order[i]].public_key, sh[order[i]].selection>>]

\* The product, modulo ModP, of the shares of a selection, taken in the order given.
RECURSIVE mult_p(_)
mult_p(tally_shares) ==
    IF tally_shares = <<>> THEN 1
    ELSE (Head(tally_shares)[3] * mult_p(Tail(tally_shares))) % ModP

\* serialize(JointElectionKey(joint_key=joint_key)), the content of end_key_ceremony
joint_key_content(k) == [cast |-> {}, shares |-> {}, value |-> k]

\* serialize(self.context.tally.cast), the content of tally.cast
tally_cast_content(t) == [cast |-> t.cast, shares |-> {}, value |-> 0]

\* The results of end_tally: the selection of the cast tally decrypted with the shares of
\* every recorded guardian (decrypt_selection_with_decryption_shares multiplies them).
\* The payload names the shares that were combined; the order in which the serialized
\* selection lists them is the library's and is not part of the payload modelled.
tally_results(t, sh, order) ==
    LET tally_shares == prepare_shares_for_decryption(sh, order)
    IN [cast |-> t.cast,
        shares |-> {tally_shares[i] : i \in DOMAIN tally_shares},
        value |-> mult_p(tally_shares)]

\* ------------------------------------------------------------------ actions
\* The history of a call.  script stays TRUE while every call is a message that a step
\* handles without raising, from a guardian its phase has not recorded yet.
Handled(fresh) == script' = (script /\ fresh)

\* Wrapper.process_message returning at once: nothing is called, nothing is returned.
Skipped ==
    /\ last' = Outcome("process_message", "any", TRUE, "None", "None")
    /\ returned' = NoResults
    /\ script' = FALSE
    /\ UNCHANGED <<step, ctx, acc, emitted, entered, keys_at_quorum, counted,
                   ingested, pending>>

\* Wrapper.process_message with a message of some type that the active step skips.
SkipMessage ==
    /\ {t \in MessageTypes : skip_message(step, t)} # {}
    /\ Skipped

\* Mutant of DecodeError: ProcessTrusteeVerification adds the guardian_id of the message
\* to its set before it decodes the content.
DecodeError_after_add(m) ==
    /\ ~skip_message(step, m.message_type)
    /\ ~m.ok
    /\ last' = Outcome("process_message", m.message_type, FALSE, "None", "DecodeError")
    /\ returned' = NoResults
    /\ script' = FALSE
    /\ verifications_received' =
           IF step = "ProcessTrusteeVerification"
           THEN verifications_received \cup {m.guardian_id}
           ELSE verifications_received
    /\ UNCHANGED <<step, ctx, partial_keys_received, emitted, entered, keys_at_quorum,
                   counted, ingested, pending>>

\* A handler whose deserialize(message['content'], ...) raises: nothing was assigned yet.
\* ProcessCastVote decodes no content of end_vote.
DecodeError(m) ==
    /\ ~skip_message(step, m.message_type)
    /\ ~m.ok
    /\ last' = Outcome("process_message", m.message_type, FALSE, "None", "DecodeError")
    /\ returned' = NoResults
    /\ script' = FALSE
    /\ UNCHANGED <<step, ctx, acc, emitted, entered, keys_at_quorum, counted,
                   ingested, pending>>

ProcessCreateElection(m) ==
    /\ step = "ProcessCreateElection"
    /\ ~skip_message(step, m.message_type)
    /\ number_of_guardians' = m.trustees
    /\ step' = AfterCreateElection
    /\ entered' = Bump(step')
    /\ last' = Outcome("process_message", m.message_type, FALSE, "None", "None")
    /\ returned' = NoResults
    /\ Handled(TRUE)
    /\ UNCHANGED <<public_keys, shares, shares_order, tally, election_context, acc,
                   emitted, keys_at_quorum, counted, ingested, pending>>

ProcessStartKeyCeremony(m) ==
    /\ step = "ProcessStartKeyCeremony"
    /\ ~skip_message(step, m.message_type)
    /\ step' = AfterStartKeyCeremony
    /\ entered' = Bump(step')
    /\ last' = Outcome("process_message", m.message_type, FALSE, "None", "None")
    /\ returned' = NoResults
    /\ Handled(TRUE)
    /\ UNCHANGED <<ctx, acc, emitted, keys_at_quorum, counted, ingested, pending>>

ProcessTrusteeElectionKeys(m) ==
    /\ step = "ProcessTrusteeElectionKeys"
    /\ ~skip_message(step, m.message_type)
    /\ m.ok
    /\ public_keys' = Put(public_keys, m.guardian_id, m.key)
    /\ IF keys_quorum(public_keys', number_of_guardians)
       THEN /\ step' = "ProcessTrusteeElectionPartialKeys"
            /\ partial_keys_received' = {}
            /\ entered' = Bump(step')
            /\ keys_at_quorum' = public_keys'
       ELSE UNCHANGED <<step, partial_keys_received, entered, keys_at_quorum>>
    /\ last' = Outcome("process_message", m.message_type, FALSE, "None", "None")
    /\ returned' = NoResults
    /\ Handled(m.guardian_id \notin DOMAIN public_keys)
    /\ UNCHANGED <<number_of_guardians, shares, shares_order, tally, election_context,
                   verifications_received, emitted, counted, ingested, pending>>

ProcessTrusteeElectionPartialKeys(m) ==
    /\ step = "ProcessTrusteeElectionPartialKeys"
    /\ ~skip_message(step, m.message_type)
    /\ m.ok
    /\ LET received == partial_keys_received \cup {m.guardian_id}
       IN /\ counted' = [counted EXCEPT !.partial_keys = received]
          /\ IF partial_keys_quorum(received, number_of_guardians)
             THEN /\ step' = "ProcessTrusteeVerification"
                  /\ partial_keys_received' = {}
                  /\ verifications_received' = {}
                  /\ entered' = Bump(step')
             ELSE /\ partial_keys_received' = received
                  /\ UNCHANGED <<step, verifications_received, entered>>
    /\ last' = Outcome("process_message", m.message_type, FALSE, "None", "None")
    /\ returned' = NoResults
    /\ Handled(m.guardian_id \notin partial_keys_received)
    /\ UNCHANGED <<ctx, emitted, keys_at_quorum, ingested, pending>>

ProcessTrusteeVerification(m) ==
    /\ step = "ProcessTrusteeVerification"
    /\ ~skip_message(step, m.message_type)
    /\ m.ok
    /\ LET received == verifications_received \cup {m.guardian_id}
       IN /\ counted' = [counted EXCEPT !.verifications = received]
          /\ IF verifications_below_quorum(received, number_of_guardians)
             THEN /\ verifications_received' = received
                  /\ last' = Outcome("process_message", m.message_type, FALSE,
                                     "None", "None")
                  /\ returned' = NoResults
                  /\ UNCHANGED <<step, election_context, emitted, entered>>
             ELSE /\ election_context' =
                        [built |-> TRUE, joint_key |-> joint_key_of(public_keys, received)]
                  /\ verifications_received' = {}
                  /\ step' = AfterVerification
                  /\ entered' = Bump(step')
                  /\ emitted' = [emitted EXCEPT !.end_key_ceremony = @ + 1]
                  /\ last' = Outcome("process_message", m.message_type, FALSE,
                                     "end_key_ceremony", "None")
                  /\ returned' = joint_key_content(election_context'.joint_key)
    /\ Handled(m.guardian_id \notin verifications_received)
    /\ UNCHANGED <<number_of_guardians, public_keys, shares, shares_order, tally,
                   partial_keys_received, keys_at_quorum, ingested, pending>>

ProcessStartVote(m) ==
    /\ step = "ProcessStartVote"
    /\ ~skip_message(step, m.message_type)
    /\ step' = AfterStartVote
    /\ entered' = Bump(step')
    /\ counted' = [partial_keys |-> {}, verifications |-> {}]
    /\ last' = Outcome("process_message", m.message_type, FALSE, "None", "None")
    /\ returned' = NoResults
    /\ Handled(TRUE)
    /\ UNCHANGED <<ctx, acc, emitted, keys_at_quorum, ingested, pending>>

\* Mutant of ProcessCastVote: a vote.cast whose ballot is valid is added to the tally.
ProcessCastVote_tallying(m) ==
    /\ step = "ProcessCastVote"
    /\ ~skip_message(step, m.message_type)
    /\ IF m.message_type = "end_vote"
       THEN /\ tally' = new_tally
            /\ step' = AfterEndVote
            /\ entered' = Bump(step')
            /\ last' = Outcome("process_message", m.message_type, FALSE, "None", "None")
            /\ Handled(TRUE)
       ELSE /\ m.ok
            /\ IF ballot_rejected(m)
               THEN /\ last' = Outcome("process_message", m.message_type, FALSE,
                                       "None", "InvalidBallot")
                    /\ script' = FALSE
                    /\ UNCHANGED tally
               ELSE /\ last' = Outcome("process_message", m.message_type, FALSE,
                                       "None", "None")
                    /\ tally' = tally_ballot(m.ballot, tally)
                    /\ Handled(TRUE)
            /\ UNCHANGED <<step, entered>>
    /\ returned' = NoResults
    /\ UNCHANGED <<number_of_guardians, public_keys, shares, shares_order,
                   election_context, acc,
                   emitted, keys_at_quorum, counted, ingested, pending>>

ProcessCastVote(m) ==
    /\ step = "ProcessCastVote"
    /\ ~skip_message(step, m.message_type)
    /\ IF m.message_type = "end_vote"
       THEN /\ tally' = new_tally
            /\ step' = AfterEndVote
            /\ entered' = Bump(step')
            /\ last' = Outcome("process_message", m.message_type, FALSE, "None", "None")
            /\ Handled(TRUE)
       ELSE /\ m.ok
            /\ IF ballot_rejected(m)
               THEN /\ last' = Outcome("process_message", m.message_type, FALSE,
                                       "None", "InvalidBallot")
                    /\ script' = FALSE
               ELSE /\ last' = Outcome("process_message", m.message_type, FALSE,
                                       "None", "None")
                    /\ Handled(TRUE)
            /\ UNCHANGED <<tally, step, entered>>
    /\ returned' = NoResults
    /\ UNCHANGED <<number_of_guardians, public_keys, shares, shares_order,
                   election_context, acc,
                   emitted, keys_at_quorum, counted, ingested, pending>>

ProcessStartTally(m) ==
    /\ step = "ProcessStartTally"
    /\ ~skip_message(step, m.message_type)
    /\ step' = AfterStartTally
    /\ entered' = Bump(step')
    /\ last' = Outcome("process_message", m.message_type, FALSE, "None", "None")
    /\ returned' = NoResults
    /\ Handled(TRUE)
    /\ UNCHANGED <<ctx, acc, emitted, keys_at_quorum, counted, ingested, pending>>

\* The handler returns (..., None) on both paths: the step stays the active one.  The
\* guard on emitted bounds the exploration; the code has no such limit.
ProcessTrusteeShare(m) ==
    /\ step = "ProcessTrusteeShare"
    /\ ~skip_message(step, m.message_type)
    /\ m.ok
    /\ emitted.end_tally < MaxEndTally
    /\ shares' = Put(shares, m.guardian_id, [public_key |-> m.key, selection |-> m.share])
    /\ shares_order' = PutOrder(shares, shares_order, m.guardian_id)
    /\ IF shares_below_quorum(shares', number_of_guardians)
       THEN /\ last' = Outcome("process_message", m.message_type, FALSE, "None", "None")
            /\ returned' = NoResults
            /\ UNCHANGED emitted
       ELSE /\ returned' = tally_results(tally, shares', shares_order')
            /\ emitted' = [emitted EXCEPT !.end_tally = @ + 1]
            /\ last' = Outcome("process_message", m.message_type, FALSE, "end_tally", "None")
    /\ Handled(m.guardian_id \notin DOMAIN shares)
    /\ UNCHANGED <<step, number_of_guardians, public_keys, tally, election_context, acc,
                   entered, keys_at_quorum, counted, ingested, pending>>

\* Wrapper.process_message(message_type, message): the call returns at once when the
\* active step skips the message type, and the active step handles the message otherwise.
process_message(m) ==
    IF skip_message(step, m.message_type)
    THEN Skipped
    ELSE \/ DecodeError(m)
         \/ ProcessCreateElection(m)
         \/ ProcessStartKeyCeremony(m)
         \/ ProcessTrusteeElectionKeys(m)
         \/ ProcessTrusteeElectionPartialKeys(m)
         \/ ProcessTrusteeVerification(m)
         \/ ProcessStartVote(m)
         \/ ProcessCastVote(m)
         \/ ProcessStartTally(m)
         \/ ProcessTrusteeShare(m)

\* BulletinBoard.add_ballot: deserialize, then tally_ballot on context.tally, an attribute
\* that exists only once end_vote has set it.
add_ballot(b, ok) ==
    /\ IF ~ok
       THEN /\ last' = Outcome("add_ballot", "none", FALSE, "None", "DecodeError")
            /\ UNCHANGED <<tally, ingested>>
       ELSE IF ~tally.exists
       THEN /\ last' = Outcome("add_ballot", "none", FALSE, "None", "AttributeError")
            /\ UNCHANGED <<tally, ingested>>
       ELSE /\ tally' = tally_ballot(b, tally)
            /\ ingested' = ingested \cup {b}
            /\ last' = Outcome("add_ballot", "none", FALSE, "None", "None")
    /\ returned' = NoResults
    /\ script' = FALSE
    /\ UNCHANGED <<step, number_of_guardians, public_keys, shares, shares_order,
                   election_context, acc,
                   emitted, entered, keys_at_quorum, counted, pending>>

\* BulletinBoard.get_tally_cast: reads context.tally.cast
get_tally_cast ==
    /\ IF tally.exists
       THEN /\ last' = Outcome("get_tally_cast", "none", FALSE, "tally.cast", "None")
            /\ returned' = tally_cast_content(tally)
       ELSE /\ last' = Outcome("get_tally_cast", "none", FALSE, "None", "AttributeError")
            /\ returned' = NoResults
    /\ script' = FALSE
    /\ UNCHANGED <<step, ctx, acc, emitted, entered, keys_at_quorum, counted,
                   ingested, pending>>

Next ==
    \/ SkipMessage
    \/ \E m \in {x \in Messages : ~x.ok} : DecodeError(m)
    \/ \E m \in CreateMessages : ProcessCreateElection(m)
    \/ \E m \in ControlMessages : ProcessStartKeyCeremony(m)
    \/ \E m \in KeyMessages : ProcessTrusteeElectionKeys(m)
    \/ \E m \in PartialKeyMessages : ProcessTrusteeElectionPartialKeys(m)
    \/ \E m \in VerificationMessages : ProcessTrusteeVerification(m)
    \/ \E m \in ControlMessages : ProcessStartVote(m)
    \/ \E m \in ControlMessages \cup VoteMessages : ProcessCastVote(m)
    \/ \E m \in ControlMessages : ProcessStartTally(m)
    \/ \E m \in ShareMessages : ProcessTrusteeShare(m)
    \/ \E x \in Ballots : add_ballot(x[1], x[2])
    \/ get_tally_cast

Spec == Init /\ [][Next]_vars

\* ------------------------------------------- messages that keep being submitted
\* The engine is driven by its callers and has no scheduler of its own.  FairSpec states
\* what the callers do: the message the active step waits for keeps being submitted, a
\* control message in a control step and, in a collecting step, a decodable message of a
\* guardian the step has not recorded yet.  This is no more than callers provide who
\* submit every control message and every message of every guardian again and again;
\* every other call (skipped, duplicate, undecodable and invalid-ballot messages,
\* add_ballot, get_tally_cast) may happen at any moment, any number of times.
Resubmitted ==
    /\ WF_vars(\E m \in CreateMessages : ProcessCreateElection(m))
    /\ WF_vars(\E m \in ControlMessages : ProcessStartKeyCeremony(m))
    /\ WF_vars(\E m \in KeyMessages :
                   m.guardian_id \notin DOMAIN public_keys /\ ProcessTrusteeElectionKeys(m))
    /\ WF_vars(\E m \in PartialKeyMessages :
                   /\ m.guardian_id \notin partial_keys_received
                   /\ ProcessTrusteeElectionPartialKeys(m))
    /\ WF_vars(\E m \in VerificationMessages :
                   /\ m.guardian_id \notin verifications_received
                   /\ ProcessTrusteeVerification(m))
    /\ WF_vars(\E m \in ControlMessages : ProcessStartVote(m))
    /\ WF_vars(\E m \in ControlMessages : ProcessCastVote(m))
    /\ WF_vars(\E m \in ControlMessages : ProcessStartTally(m))
    /\ WF_vars(\E m \in ShareMessages :
                   m.guardian_id \notin DOMAIN shares /\ ProcessTrusteeShare(m))

FairSpec == Spec /\ Resubmitted

\* --------------------------------------------------- add_ballot called concurrently
\* add_ballot takes no lock: tally_ballot reads the accumulation of context.tally, adds
\* the ballot to it and stores the sum, and two threads may do so at the same time.
\* A thread enters tally_ballot and reads the cast tally.
add_ballot_read(c, b) ==
    /\ ~pending[c].busy
    /\ tally.exists
    /\ pending' = [pending EXCEPT ![c] = [busy |-> TRUE, ballot |-> b, seen |-> tally.cast]]
    /\ UNCHANGED <<step, ctx, acc, last, returned, emitted, entered, keys_at_quorum,
                   counted, ingested, script>>

\* The thread stores the cast tally it read with its ballot added, and add_ballot returns.
add_ballot_write(c) ==
    /\ pending[c].busy
    /\ tally' = tally_ballot(pending[c].ballot, [tally EXCEPT !.cast = pending[c].seen])
    /\ ingested' = ingested \cup {pending[c].ballot}
    /\ pending' = [pending EXCEPT ![c] = NotCalling]
    /\ last' = Outcome("add_ballot", "none", FALSE, "None", "None")
    /\ returned' = NoResults
    /\ script' = FALSE
    /\ UNCHANGED <<step, number_of_guardians, public_keys, shares, shares_order,
                   election_context, acc, emitted, entered, keys_at_quorum, counted>>

NextConcurrent ==
    \/ Next
    \/ \E c \in Callers, b \in BallotIds : add_ballot_read(c, b)
    \/ \E c \in Callers : add_ballot_write(c)

ConcurrentSpec == Init /\ [][NextConcurrent]_vars

TypeOK ==
    /\ step \in StepSet
    /\ number_of_guardians \in 0 .. MaxGuardians
    /\ DOMAIN public_keys \subseteq GuardianIds
    /\ DOMAIN shares \subseteq GuardianIds
    /\ {shares_order[i] : i \in DOMAIN shares_order} = DOMAIN shares
    /\ Len(shares_order) = Cardinality(DOMAIN shares)
    /\ tally.cast \subseteq BallotIds

\* ------------------------------------------------------------------- claims
N == number_of_guardians

Later(s, t) == StepIndex(s) > StepIndex(t)

\* What the wrapper and the active step hold, without the record of the last call.
engine == <<step, ctx, acc>>

\* C1: under every sequence of calls the active step is one of the nine steps, and every
\* call either keeps it or moves it to the step that follows it in the fixed order: it
\* never goes back and never skips a step.
C1_StepsOnlyMoveForward ==
    [][/\ step \in StepSet
       /\ step' \in StepSet
       /\ step' = step \/ StepIndex(step') = StepIndex(step) + 1]_vars

\* The last step was reached and a message was skipped there.
C1_Witness == step = "ProcessTrusteeShare" /\ last.skipped

\* The types the claim C2 says a step accepts.
C2_Accepted(s) ==
    IF s = "ProcessCastVote" THEN {"vote.cast", "end_vote"} ELSE {message_type(s)}

\* A call that did nothing: step, context and phase-local sets are unchanged, and the
\* call returned as a skipped message does, with no outbound message and no exception.
C2_NoOp ==
    /\ UNCHANGED engine
    /\ last' = [skipped |-> TRUE, out |-> "None", error |-> "None"]
    /\ returned' = NoResults

\* C2: in every step, submitting a message whose type the active step does not accept
\* (other than vote.cast and end_vote in ProcessCastVote, other than the declared
\* message_type elsewhere) changes neither the step, the context nor the phase-local
\* sets and returns nothing; a message of an accepted type is not skipped.
C2_MismatchIsNoOp ==
    /\ [](\A t \in MessageTypes : skip_message(step, t) <=> t \notin C2_Accepted(step))
    /\ [][SkipMessage => C2_NoOp]_vars

\* A message was skipped while ProcessCastVote was active and the election had begun.
C2_Witness == step = "ProcessCastVote" /\ last.skipped /\ election_context.built

\* C3: while ProcessTrusteeElectionKeys is active fewer than N guardians are recorded; a
\* key message handled there moves the engine to ProcessTrusteeElectionPartialKeys if and
\* only if it brings the number of recorded guardians to N, which happens once; a key
\* message of a recorded guardian overwrites its entry and records no new guardian.
C3_KeysQuorum ==
    /\ [](/\ entered["ProcessTrusteeElectionPartialKeys"] <= 1
          /\ step = "ProcessTrusteeElectionKeys" =>
                 /\ N >= 1
                 /\ Cardinality(DOMAIN public_keys) < N
                 /\ entered["ProcessTrusteeElectionPartialKeys"] = 0
          /\ Later(step, "ProcessTrusteeElectionKeys") =>
                 entered["ProcessTrusteeElectionPartialKeys"] = 1)
    /\ [][\A m \in KeyMessages :
            (step = "ProcessTrusteeElectionKeys" /\ m.ok /\ process_message(m)) =>
                /\ public_keys'[m.guardian_id] = m.key
                /\ m.guardian_id \in DOMAIN public_keys =>
                       DOMAIN public_keys' = DOMAIN public_keys /\ step' = step
                /\ step' = "ProcessTrusteeElectionPartialKeys" <=>
                       Cardinality(DOMAIN public_keys') = N
                /\ step' = step <=> Cardinality(DOMAIN public_keys') < N]_vars

\* The largest election reached its key quorum by a key message, after a call off the
\* script (a key sent twice, a skipped or an undecodable message).
C3_Witness ==
    /\ step = "ProcessTrusteeElectionPartialKeys"
    /\ N = MaxGuardians
    /\ Cardinality(DOMAIN public_keys) = N
    /\ ~script
    /\ ~last.skipped
    /\ last.error = "None"

\* C4: the joint key installed at the verification quorum is the combination of the N
\* public keys recorded when ProcessTrusteeElectionKeys reached its quorum, and once it
\* is installed no call changes it, the number of guardians or the recorded public keys.
C4_JointKeyFixed ==
    /\ [](election_context.built =>
             /\ Cardinality(DOMAIN keys_at_quorum) = N
             /\ public_keys = keys_at_quorum
             /\ election_context.joint_key = elgamal_combine_public_keys(keys_at_quorum))
    /\ [][election_context.built =>
             UNCHANGED <<election_context, number_of_guardians, public_keys>>]_vars
    /\ [][Later(step, "ProcessTrusteeElectionKeys") => UNCHANGED public_keys]_vars

\* The joint key of two guardians is installed, the vote is open, and a message (of the
\* key ceremony among others) was skipped.
C4_Witness ==
    /\ election_context.built
    /\ N = MaxGuardians
    /\ step = "ProcessCastVote"
    /\ last.skipped

\* The scenario of C5 has just been completed: every call so far was a message handled
\* from a guardian new to its phase, N verifications are in, start_vote was not sent.
C5_ScenarioDone ==
    /\ script
    /\ N >= 1
    /\ ~Later(step, "ProcessStartVote")
    /\ Cardinality(counted.verifications) = N

\* C5 as stated: after the scenario one end_key_ceremony was returned and the active step
\* is ProcessCastVote.
C5_Original ==
    C5_ScenarioDone => emitted.end_key_ceremony = 1 /\ step = "ProcessCastVote"

\* C5 amended: after create_election, start_key_ceremony and N key, N partial-key and N
\* verification messages of N distinct guardians, exactly one end_key_ceremony was
\* returned, by the last message, and the active step is ProcessStartVote.
C5_KeyCeremonyEndsInStartVote ==
    C5_ScenarioDone =>
        /\ emitted.end_key_ceremony = 1
        /\ last.out = "end_key_ceremony"
        /\ step = "ProcessStartVote"

\* The scenario was completed with the largest number of guardians.
C5_Witness == C5_ScenarioDone /\ N = MaxGuardians /\ step = "ProcessStartVote"

\* C6: a vote.cast message handled by ProcessCastVote raises InvalidBallot if and only if
\* its content decodes and the validator rejects the ballot; when InvalidBallot is raised
\* the step, the context (the tally included) and the phase-local sets are unchanged.
C6_InvalidBallot ==
    [][\A m \in VoteMessages :
          (step = "ProcessCastVote" /\ process_message(m)) =>
              /\ last'.error = "InvalidBallot" <=> (m.ok /\ ~m.valid)
              /\ last'.error = "InvalidBallot" =>
                     UNCHANGED engine /\ step' = "ProcessCastVote"]_vars

\* InvalidBallot was raised while ProcessCastVote was active.
C6_Witness == step = "ProcessCastVote" /\ last.error = "InvalidBallot"

C7_WitnessCastVote == step = "ProcessCastVote" /\ last.error = "AttributeError"

C9_SharesQuorum ==
    /\ [][\A m \in ShareMessages :
            ProcessTrusteeShare(m) =>
                /\ Cardinality(DOMAIN shares') < N =>
                       last'.out = "None" /\ returned' = NoResults
                /\ (Cardinality(DOMAIN shares) < N /\ Cardinality(DOMAIN shares') = N) =>
                       /\ last'.out = "end_tally"
                       /\ returned'.cast = tally.cast
                       /\ {sh[1] : sh \in returned'.shares} = DOMAIN shares'
                       /\ \A g \in DOMAIN shares' :
                              <<g, shares'[g].public_key, shares'[g].selection>>
                                  \in returned'.shares]_vars
    /\ [][step = "ProcessTrusteeShare" => step' = "ProcessTrusteeShare"]_vars

\* end_tally was returned for the largest election with a ballot in the tally.
C9_Witness ==
    /\ step = "ProcessTrusteeShare"
    /\ last.out = "end_tally"
    /\ N = MaxGuardians
    /\ Cardinality(DOMAIN shares) = N
    /\ tally.cast # {}

\* C10: at most one end_tally is ever returned for an election.
C10_AtMostOneEndTally == emitted.end_tally <= 1

\* C11: whenever end_tally is returned, the results were combined from the shares of
\* exactly N distinct guardians, never fewer and never more.
C11_ExactlyNShares ==
    last.out = "end_tally" => Cardinality({sh[1] : sh \in returned.shares}) = N

\* The orders in which the guardians of S can have been recorded.
Orders(S) ==
    {o \in [1 .. Cardinality(S) -> S] : \A i, j \in DOMAIN o : o[i] = o[j] => i = j}

Undecodable == {m \in Messages : ~m.ok}

C14_NoLostUpdate == ingested \subseteq tally.cast

\* C15: ProcessTrusteeElectionPartialKeys and ProcessTrusteeVerification each hold an
\* empty set when they become the active step and fewer than N guardians while they are
\* active; a message handled there adds its guardian to the set, a guardian already in it
\* changing nothing, and the active step changes exactly when the message brings the
\* number of distinct guardians to N, to the step that follows.
C15_PhaseLocalQuorum ==
    /\ [](/\ step = "ProcessTrusteeElectionPartialKeys" =>
                 Cardinality(partial_keys_received) < N
          /\ step = "ProcessTrusteeVerification" =>
                 Cardinality(verifications_received) < N)
    /\ [][/\ (step' # step /\ step' = "ProcessTrusteeElectionPartialKeys") =>
                 partial_keys_received' = {}
          /\ (step' # step /\ step' = "ProcessTrusteeVerification") =>
                 verifications_received' = {}
          /\ (step = "ProcessTrusteeElectionPartialKeys" /\ step' # step) =>
                 /\ step' = "ProcessTrusteeVerification"
                 /\ Cardinality(counted'.partial_keys) = N
          /\ (step = "ProcessTrusteeVerification" /\ step' # step) =>
                 /\ step' = "ProcessStartVote"
                 /\ Cardinality(counted'.verifications) = N]_vars
    /\ [][\A m \in PartialKeyMessages :
            (step = "ProcessTrusteeElectionPartialKeys" /\ m.ok /\ process_message(m)) =>
                LET received == partial_keys_received \cup {m.guardian_id}
                IN /\ counted'.partial_keys = received
                   /\ step' # step <=> Cardinality(received) = N
                   /\ step' = step => partial_keys_received' = received]_vars
    /\ [][\A m \in VerificationMessages :
            (step = "ProcessTrusteeVerification" /\ m.ok /\ process_message(m)) =>
                LET received == verifications_received \cup {m.guardian_id}
                IN /\ counted'.verifications = received
                   /\ step' # step <=> Cardinality(received) = N
                   /\ step' = step => verifications_received' = received]_vars

\* Both phases of the largest election reached their quorum, after a call off the script
\* (a guardian counted twice, a skipped or an undecodable message).
C15_Witness ==
    /\ step = "ProcessStartVote"
    /\ N = MaxGuardians
    /\ ~script
    /\ Cardinality(counted.partial_keys) = N
    /\ Cardinality(counted.verifications) = N

\* C16: no call of process_message with a vote.cast message changes the tally, whether
\* the ballot is valid or not; process_message changes the tally only by handling end_vote
\* in ProcessCastVote, which installs the empty tally, and every other change of the tally
\* is add_ballot adding its ballot.
C16_TallyFrame ==
    [][tally' # tally =>
          /\ \A m \in VoteMessages : ~process_message(m)
          /\ \/ /\ step = "ProcessCastVote"
                /\ \E m \in ControlMessages :
                      m.message_type = "end_vote" /\ process_message(m)
                /\ tally' = [exists |-> TRUE, cast |-> {}]
             \/ \E b \in BallotIds :
                   add_ballot(b, TRUE) /\ tally'.cast = tally.cast \cup {b}]_vars

\* ProcessCastVote handled a vote.cast of the largest election, rejecting its ballot, and
\* no tally exists yet.
C16_Witness ==
    /\ step = "ProcessCastVote"
    /\ N = MaxGuardians
    /\ last.error = "InvalidBallot"
    /\ ~tally.exists

\* C17: a call of process_message returns an outbound message only when its message
\* completes a quorum: end_key_ceremony is returned by the verification that brings the
\* guardians counted to N, end_tally by the share that brings the guardians with a share
\* to N, and every other message returns nothing.
C17_OutboundOnlyAtQuorumCompletion ==
    [][/\ last'.out = "end_key_ceremony" =>
              /\ step = "ProcessTrusteeVerification"
              /\ Cardinality(verifications_received) < N
              /\ Cardinality(counted'.verifications) = N
       /\ last'.out = "end_tally" =>
              /\ step = "ProcessTrusteeShare"
              /\ Cardinality(DOMAIN shares) < N
              /\ Cardinality(DOMAIN shares') = N]_vars

\* C18: the number of recorded public keys is at most N in every state and exactly N,
\* with N >= 1, in every state whose active step is later than
\* ProcessTrusteeElectionKeys; the map of public keys is changed only by a
\* trustee_election_keys message handled while ProcessTrusteeElectionKeys is active.
C18_PublicKeysBounded ==
    /\ [](/\ Cardinality(DOMAIN public_keys) <= N
          /\ Later(step, "ProcessTrusteeElectionKeys") =>
                 N >= 1 /\ Cardinality(DOMAIN public_keys) = N)
    /\ [][public_keys' # public_keys =>
             /\ step = "ProcessTrusteeElectionKeys"
             /\ \E m \in KeyMessages :
                   /\ m.ok
                   /\ process_message(m)
                   /\ public_keys' = Put(public_keys, m.guardian_id, m.key)]_vars

\* The largest election holds its N public keys in the last step, where a message (a
\* trustee_election_keys message among others) was skipped after a share was recorded.
C18_Witness ==
    /\ step = "ProcessTrusteeShare"
    /\ N = MaxGuardians
    /\ Cardinality(DOMAIN public_keys) = N
    /\ shares # Empty
    /\ last.skipped

\* C19 as stated: whenever end_key_ceremony is returned the guardians counted by the
\* partial-key phase and by the verification phase are the guardians whose public keys
\* are recorded, and whenever end_tally is returned so are the guardians with a share.
C19_Original ==
    /\ last.out = "end_key_ceremony" =>
           /\ counted.partial_keys = DOMAIN public_keys
           /\ counted.verifications = DOMAIN public_keys
    /\ last.out = "end_tally" => DOMAIN shares = DOMAIN public_keys

\* C19 amended: whenever end_key_ceremony is returned the partial-key phase and the
\* verification phase each counted exactly N distinct guardian ids, as many as public
\* keys are recorded, and whenever end_tally is returned at least N distinct guardian
\* ids have a share; the ids need not be those of the recorded public keys.
C19_QuorumByCount ==
    /\ last.out = "end_key_ceremony" =>
           /\ Cardinality(counted.partial_keys) = N
           /\ Cardinality(counted.verifications) = N
           /\ Cardinality(DOMAIN public_keys) = N
    /\ last.out = "end_tally" =>
           /\ Cardinality(DOMAIN shares) >= N
           /\ Cardinality(DOMAIN public_keys) = N

\* end_key_ceremony was returned although a guardian with no recorded public key was
\* counted by the partial-key phase and by the verification phase.
C19_Witness ==
    /\ last.out = "end_key_ceremony"
    /\ counted.partial_keys \cap DOMAIN public_keys = {}
    /\ counted.verifications \cap DOMAIN public_keys = {}

\* C20: when every control message and, for every guardian, a decodable message of each
\* type keep being submitted, in any interleaving with skipped, premature, duplicate,
\* undecodable and invalid-ballot messages and with add_ballot and get_tally_cast, then
\* from every state the engine reaches ProcessTrusteeShare, and end_tally is returned.
C20_Progress ==
    /\ [](step # "ProcessTrusteeShare" => <>(step = "ProcessTrusteeShare"))
    /\ <>(emitted.end_tally >= 1)

\* end_tally was returned, once, for the largest election, after a call off the script
\* (a skipped, duplicate or undecodable message, an invalid ballot) and with no ballot in
\* the tally.
C20_Witness ==
    /\ step = "ProcessTrusteeShare"
    /\ emitted.end_tally = 1
    /\ last.out = "end_tally"
    /\ N = MaxGuardians
    /\ ~script
    /\ ingested = {}

====
